---------------------------- MODULE Spec2Model ----------------------------
(***************************************************************************)
(* Bode data tools: the LTspice text parser (load_simulation_bode), the    *)
(* Siglent CSV parser (load_measurement_bode), the grid alignment          *)
(* (interpolate_to, a call of numpy.interp) and the CMRR derivation of     *)
(* make_cmr_plot.                                                          *)
(*                                                                         *)
(* Text is a sequence of one-character strings; the degree sign is the     *)
(* character "deg".  A line is modelled without its trailing newline: the  *)
(* CSV parser strips it, and the simulation pattern ends in ")" so that a  *)
(* trailing newline never takes part in a match.                           *)
(*                                                                         *)
(* A floating point number is a rational <<n, d>> in lowest terms, d > 0,  *)
(* whose value is representable with a significand of Prec bits; every     *)
(* conversion and every arithmetic operation rounds to nearest, ties to    *)
(* even, as IEEE 754 does.  The exponent range is not bounded (no          *)
(* overflow, no underflow, no NaN and no infinity).                        *)
(***************************************************************************)
EXTENDS Integers, Sequences, FiniteSets, TLC

\* Bits of the floating point significand (53 in the program's doubles).
Prec == 6
\* Largest number of lines of a measurement file.
MaxLines == 4
\* Largest number of lines of a simulation file.
MaxSimLines == 3
\* Largest number of lines of each file given to make_cmr_plot.
MaxCmrLines == 2
\* Largest length of the source series given to interpolate_to.
MaxSrc == 3

VARIABLES
    lines,      \* the file: a sequence of lines, each a sequence of characters
    desc,       \* how each line was written (history variable, not read by the code)
    pc,         \* position in the running function
    idx,        \* 1-based index of the next line to read
    start_idx,  \* load_measurement_bode: 0-based index of the first data line, or "None"
    freq,       \* list freq
    mag_db,     \* list mag_db
    phase_deg,  \* list phase_deg
    org_f,      \* for each element of freq, the index of the line it came from
    org_m,      \* the same for mag_db
    org_p,      \* the same for phase_deg
    ret,        \* what the caller receives: "none", a record of arrays, or an error
    interp,     \* a call of interpolate_to: its arguments and what it returned
    cmr         \* the local values of make_cmr_plot

vars == <<lines, desc, pc, idx, start_idx, freq, mag_db, phase_deg,
          org_f, org_m, org_p, ret, interp, cmr>>

-----------------------------------------------------------------------------
(* Exact rationals *)

Abs(n) == IF n < 0 THEN -n ELSE n

RECURSIVE GCD(_, _)
GCD(a, b) == IF b = 0 THEN a ELSE GCD(b, a % b)

\* n/d in lowest terms with a positive denominator (d # 0).
Rat(n, d) ==
    LET g == GCD(Abs(n), Abs(d))
        s == IF d < 0 THEN -1 ELSE 1
    IN  <<s * (n \div g), Abs(d) \div g>>

QAdd(a, b) == Rat(a[1] * b[2] + b[1] * a[2], a[2] * b[2])
QSub(a, b) == Rat(a[1] * b[2] - b[1] * a[2], a[2] * b[2])
QMul(a, b) == Rat(a[1] * b[1], a[2] * b[2])
QDiv(a, b) == Rat(a[1] * b[2], a[2] * b[1])
QLt(a, b) == a[1] * b[2] < b[1] * a[2]
QLe(a, b) == a[1] * b[2] <= b[1] * a[2]
QAbs(a) == <<Abs(a[1]), a[2]>>
QMax(a, b) == IF QLt(a, b) THEN b ELSE a
QMin(a, b) == IF QLt(a, b) THEN a ELSE b

RECURSIVE Pow(_, _)
Pow(b, k) == IF k = 0 THEN 1 ELSE b * Pow(b, k - 1)

-----------------------------------------------------------------------------
(* Floating point *)

\* Scale a/d (a, d > 0) by powers of two until 2^(Prec-1) <= a/d < 2^Prec;
\* e is the power of two taken out.
RECURSIVE Normalise(_, _, _)
Normalise(a, d, e) ==
    IF a < d * Pow(2, Prec - 1) THEN Normalise(2 * a, d, e - 1)
    ELSE IF a >= d * Pow(2, Prec) THEN Normalise(a, 2 * d, e + 1)
    ELSE <<a, d, e>>

\* The nearest number with a Prec-bit significand, ties to even.
Round(q) ==
    IF q[1] = 0 THEN <<0, 1>>
    ELSE LET t == Normalise(Abs(q[1]), q[2], 0)
             w == t[1] \div t[2]
             r == t[1] % t[2]
             m == IF 2 * r > t[2] \/ (2 * r = t[2] /\ w % 2 = 1) THEN w + 1 ELSE w
             s == IF q[1] < 0 THEN -1 ELSE 1
         IN  IF t[3] >= 0 THEN Rat(s * m * Pow(2, t[3]), 1)
             ELSE Rat(s * m, Pow(2, -t[3]))

FAdd(a, b) == Round(QAdd(a, b))
FSub(a, b) == Round(QSub(a, b))
FMul(a, b) == Round(QMul(a, b))
FDiv(a, b) == Round(QDiv(a, b))

-----------------------------------------------------------------------------
(* Characters *)

Digits == <<"0", "1", "2", "3", "4", "5", "6", "7", "8", "9">>
IsDigit(c) == \E i \in 1..Len(Digits) : Digits[i] = c
DigitVal(c) == (CHOOSE i \in 1..Len(Digits) : Digits[i] = c) - 1
\* The characters str.strip() removes and \s matches.
IsSpace(c) == c \in {" ", "\t", "\n", "\r"}
\* The character class [0-9.eE+-] of the simulation pattern.
IsNumCh(c) == IsDigit(c) \/ c \in {".", "e", "E", "+", "-"}

Drop(s, k) == SubSeq(s, k + 1, Len(s))

RECURSIVE LStrip(_)
LStrip(s) == IF s # <<>> /\ IsSpace(s[1]) THEN LStrip(Tail(s)) ELSE s

RECURSIVE RStrip(_)
RStrip(s) ==
    IF s # <<>> /\ IsSpace(s[Len(s)]) THEN RStrip(SubSeq(s, 1, Len(s) - 1)) ELSE s

\* str.strip()
Strip(s) == LStrip(RStrip(s))

\* str.startswith(p)
StartsWith(s, p) == Len(s) >= Len(p) /\ SubSeq(s, 1, Len(p)) = p

\* str.split(","): the fields between the commas, at least one.
RECURSIVE SplitFrom(_, _)
SplitFrom(s, cur) ==
    IF s = <<>> THEN <<cur>>
    ELSE IF s[1] = "," THEN <<cur>> \o SplitFrom(Tail(s), <<>>)
    ELSE SplitFrom(Tail(s), Append(cur, s[1]))

Split(s) == SplitFrom(s, <<>>)

\* The length of the longest prefix of s whose characters all satisfy the class.
RECURSIVE RunDigits(_)
RunDigits(s) == IF s # <<>> /\ IsDigit(s[1]) THEN 1 + RunDigits(Tail(s)) ELSE 0

RECURSIVE RunNumCh(_)
RunNumCh(s) == IF s # <<>> /\ IsNumCh(s[1]) THEN 1 + RunNumCh(Tail(s)) ELSE 0

RECURSIVE RunSpace(_)
RunSpace(s) == IF s # <<>> /\ IsSpace(s[1]) THEN 1 + RunSpace(Tail(s)) ELSE 0

\* The value of a string of decimal digits.
RECURSIVE DecVal(_)
DecVal(s) ==
    IF s = <<>> THEN 0 ELSE 10 * DecVal(SubSeq(s, 1, Len(s) - 1)) + DigitVal(s[Len(s)])


-----------------------------------------------------------------------------
(* float(str) *)

ValueError == [ok |-> FALSE, val |-> <<0, 1>>]

\* m * 10^ex as a rational.
Decimal(m, ex) == IF ex >= 0 THEN Rat(m * Pow(10, ex), 1) ELSE Rat(m, Pow(10, -ex))

\* The text after an optional sign.
Unsigned(t) == IF t # <<>> /\ t[1] \in {"+", "-"} THEN Tail(t) ELSE t
HasMinus(t) == t # <<>> /\ t[1] = "-"

\* The digits after a decimal point at the start of a, and what follows them.
HasDot(a) == a # <<>> /\ a[1] = "."
FracDigits(a) == IF HasDot(a) THEN SubSeq(Tail(a), 1, RunDigits(Tail(a))) ELSE <<>>
AfterFrac(a) == IF HasDot(a) THEN Drop(Tail(a), RunDigits(Tail(a))) ELSE a

\* The exponent at the start of c: its marker, sign and digits, and what follows.
HasExp(c) == c # <<>> /\ c[1] \in {"e", "E"}
ExpBody(c) == IF HasExp(c) THEN Unsigned(Tail(c)) ELSE c
ExpNeg(c) == HasExp(c) /\ HasMinus(Tail(c))
ExpDigits(c) == IF HasExp(c) THEN SubSeq(ExpBody(c), 1, RunDigits(ExpBody(c))) ELSE <<>>
AfterExp(c) == IF HasExp(c) THEN Drop(ExpBody(c), RunDigits(ExpBody(c))) ELSE c

\* The double denoted by the pieces of a literal, or ValueError when the
\* pieces are not a literal: no digit in the mantissa, an exponent marker
\* without digits, or text left over.
FloatValue(neg, ip, fp, hasExp, eneg, ed, rest) ==
    IF Len(ip) + Len(fp) >= 1 /\ (hasExp => ed # <<>>) /\ rest = <<>>
    THEN [ok |-> TRUE,
          val |-> Round(Decimal((IF neg THEN -1 ELSE 1) * DecVal(ip \o fp),
                                (IF eneg THEN -1 ELSE 1) * DecVal(ed) - Len(fp)))]
    ELSE ValueError

FloatExp(neg, ip, fp, c) ==
    FloatValue(neg, ip, fp, HasExp(c), ExpNeg(c), ExpDigits(c), AfterExp(c))

FloatFrac(neg, ip, a) == FloatExp(neg, ip, FracDigits(a), AfterFrac(a))

FloatInt(neg, u) == FloatFrac(neg, SubSeq(u, 1, RunDigits(u)), Drop(u, RunDigits(u)))

\* Python's float() on text: surrounding whitespace is dropped, then
\*   [sign] (digits ["." [digits]] | "." digits) [("e" | "E") [sign] digits]
\* must cover all that is left; the decimal value is rounded to a double.
\* Anything else raises ValueError.  (Underscores, "inf" and "nan" are not
\* among the characters of the modelled files.)
PyFloat(s) == FloatInt(HasMinus(Strip(s)), Unsigned(Strip(s)))

-----------------------------------------------------------------------------
(* The simulation pattern *)

NoMatch == [ok |-> FALSE, g1 |-> <<>>, g2 |-> <<>>, g3 |-> <<>>]

\* The pattern
\*   ([0-9.eE+-]+)\s+\(\s*([0-9.eE+-]+)dB\s*,\s*([0-9.eE+-]+)deg\s*\)
\* matched at the start of s.  Neighbouring pieces of the pattern accept
\* disjoint characters, so the greedy match is the only possible one.
MatchAt(s) ==
    LET n1 == RunNumCh(s)
        a == Drop(s, n1)
        w1 == RunSpace(a)
        b == Drop(a, w1)
        c == Drop(b, 1)
        d == Drop(c, RunSpace(c))
        n2 == RunNumCh(d)
        e == Drop(d, n2)
        f == Drop(e, 2)
        g == Drop(f, RunSpace(f))
        h == Drop(g, 1)
        i == Drop(h, RunSpace(h))
        n3 == RunNumCh(i)
        j == Drop(i, n3)
        k == Drop(j, 1)
        l == Drop(k, RunSpace(k))
    IN  IF /\ n1 >= 1
           /\ w1 >= 1
           /\ StartsWith(b, <<"(">>)
           /\ n2 >= 1
           /\ StartsWith(e, <<"d", "B">>)
           /\ StartsWith(g, <<",">>)
           /\ n3 >= 1
           /\ StartsWith(j, <<"deg">>)
           /\ StartsWith(l, <<")">>)
        THEN [ok |-> TRUE, g1 |-> SubSeq(s, 1, n1), g2 |-> SubSeq(d, 1, n2),
              g3 |-> SubSeq(i, 1, n3)]
        ELSE NoMatch

\* pattern.match(line): a match at the start of the line only.
MatchAtStart(s) == MatchAt(s)

\* pattern.search(line): the match at the leftmost position that has one.
RECURSIVE Search(_)
Search(s) ==
    IF s = <<>> THEN NoMatch
    ELSE IF MatchAt(s).ok THEN MatchAt(s)
    ELSE Search(Tail(s))

-----------------------------------------------------------------------------
(* The bodies of the two parsers' loops *)

\* The lists of a parser before its first line; err is the exception that
\* left the function, "none" while there is none.
NoLists ==
    [freq |-> <<>>, mag_db |-> <<>>, phase_deg |-> <<>>,
     org_f |-> <<>>, org_m |-> <<>>, org_p |-> <<>>, err |-> "none"]

\* freq.append(v1); mag_db.append(v2); phase_deg.append(v3) for line i, each
\* v the result of float(): the appends run in order, and the first
\* ValueError ends them, leaving the appends before it made.
AppendUntilError(s, i, v1, v2, v3) ==
    [freq |-> IF v1.ok THEN Append(s.freq, v1.val) ELSE s.freq,
     org_f |-> IF v1.ok THEN Append(s.org_f, i) ELSE s.org_f,
     mag_db |-> IF v1.ok /\ v2.ok THEN Append(s.mag_db, v2.val) ELSE s.mag_db,
     org_m |-> IF v1.ok /\ v2.ok THEN Append(s.org_m, i) ELSE s.org_m,
     phase_deg |-> IF v1.ok /\ v2.ok /\ v3.ok THEN Append(s.phase_deg, v3.val)
                   ELSE s.phase_deg,
     org_p |-> IF v1.ok /\ v2.ok /\ v3.ok THEN Append(s.org_p, i) ELSE s.org_p,
     err |-> IF v1.ok /\ v2.ok /\ v3.ok THEN "none" ELSE "ValueError"]

\* load_simulation_bode, "if match:" on line number i: nothing catches the
\* ValueError of float(), which leaves the function.
SimMatch(s, i, match) ==
    IF ~match.ok THEN s
    ELSE AppendUntilError(s, i, PyFloat(match.g1), PyFloat(match.g2), PyFloat(match.g3))

\* load_simulation_bode, the body of "for line in f" on line number i.
SimBody(s, line, i) == SimMatch(s, i, Search(line))

\* The literal "Frequency(Hz)".
HeaderToken == <<"F", "r", "e", "q", "u", "e", "n", "c", "y", "(", "H", "z", ")">>

\* A header test that forgets to strip the line.
IsHeaderUnstripped(line) == StartsWith(line, HeaderToken)

\* line.strip().startswith("Frequency(Hz)")
IsHeader(line) == StartsWith(Strip(line), HeaderToken)

\* load_measurement_bode, "parts = ...; if len(parts) < 3: continue; try: ...
\* except ValueError: pass" on line number i: the appends made before float()
\* raised are kept, and the error is dropped.
MeasParts(s, i, parts) ==
    IF Len(parts) < 3 THEN s
    ELSE [AppendUntilError(s, i, PyFloat(parts[1]), PyFloat(parts[2]), PyFloat(parts[3]))
             EXCEPT !.err = "none"]

\* load_measurement_bode, the body of "for line in lines[start_idx:]" on line
\* number i.
MeasBody(s, line, i) == MeasParts(s, i, Split(Strip(line)))

\* What a call hands to its caller.
NoReturn == [kind |-> "none", f |-> <<>>, m |-> <<>>, p |-> <<>>]
Raise(e) == [kind |-> e, f |-> <<>>, m |-> <<>>, p |-> <<>>]
\* return (np.array(freq), np.array(mag_db), np.array(phase_deg))
Arrays(s) == [kind |-> "arrays", f |-> s.freq, m |-> s.mag_db, p |-> s.phase_deg]

Lists ==
    [freq |-> freq, mag_db |-> mag_db, phase_deg |-> phase_deg,
     org_f |-> org_f, org_m |-> org_m, org_p |-> org_p, err |-> "none"]

SetLists(s) ==
    /\ freq' = s.freq
    /\ mag_db' = s.mag_db
    /\ phase_deg' = s.phase_deg
    /\ org_f' = s.org_f
    /\ org_m' = s.org_m
    /\ org_p' = s.org_p

SetListsInit ==
    /\ freq = <<>>
    /\ mag_db = <<>>
    /\ phase_deg = <<>>
    /\ org_f = <<>>
    /\ org_m = <<>>
    /\ org_p = <<>>

NoCmr == [step |-> "idle"]
NoInterp == [called |-> FALSE]

\* start_idx = None, the value before a header line is found.
None == -1

-----------------------------------------------------------------------------
(* The files the parsers are run on *)

\* A numeric token and the decimal value it denotes.
Num(tok, n, d) == [tok |-> tok, num |-> TRUE, val |-> <<n, d>>]
\* A token that denotes no number.
Bad(tok) == [tok |-> tok, num |-> FALSE, val |-> <<0, 1>>]

\* A line holding one occurrence of "<freq> (<mag>dB,<phase>deg)" written
\* with the given tokens and spacing, between the texts pre and post.  The
\* occurrence is well formed when its three tokens are numbers and the
\* frequency token is not glued to a character of the token class before it.
SimRecord(pre, glued, f, w1, w2, m, w3, w4, p, w5, post) ==
    [match |-> TRUE,
     wf |-> f.num /\ m.num /\ p.num /\ ~glued,
     triple |-> <<f.val, m.val, p.val>>,
     text |-> pre \o f.tok \o w1 \o <<"(">> \o w2 \o m.tok \o <<"d", "B">> \o w3
              \o <<",">> \o w4 \o p.tok \o <<"deg">> \o w5 \o <<")">> \o post]

\* A line holding no occurrence of the pattern.
SimJunk(text) ==
    [match |-> FALSE, wf |-> FALSE, triple |-> <<<<0, 1>>, <<0, 1>>, <<0, 1>>>>,
     text |-> text]

One == Num(<<"1">>, 1, 1)
Two == Num(<<"2">>, 2, 1)
Three == Num(<<"3">>, 3, 1)

SimPlain == SimRecord(<<>>, FALSE, One, <<" ">>, <<>>, Two, <<>>, <<>>, Three, <<>>, <<>>)
SimSpaced ==
    SimRecord(<<"x", " ">>, FALSE, Num(<<"1", "0">>, 10, 1), <<"\t", " ">>, <<" ">>,
              Num(<<"-", "3">>, -3, 1), <<" ">>, <<" ">>,
              Num(<<"0", ".", "1">>, 1, 10), <<" ">>, <<" ", "y">>)
SimForms ==
    SimRecord(<<>>, FALSE, Num(<<"-", "2", ".">>, -2, 1), <<" ">>, <<>>,
              Num(<<".", "5">>, 1, 2), <<>>, <<>>,
              Num(<<"+", "2", "E", "1">>, 20, 1), <<>>, <<>>)
SimBadFreq ==
    SimRecord(<<>>, FALSE, Bad(<<"1", "e">>), <<" ">>, <<>>, Two, <<>>, <<>>, Three,
              <<>>, <<>>)
SimBadMag ==
    SimRecord(<<>>, FALSE, One, <<" ">>, <<>>, Bad(<<"-">>), <<>>, <<>>, Three,
              <<>>, <<>>)
SimBadPhase ==
    SimRecord(<<>>, FALSE, Two, <<" ">>, <<>>, One, <<>>, <<>>, Bad(<<"1", ".", ".">>),
              <<>>, <<>>)
SimGlued ==
    SimRecord(<<"M", "o", "d", "e">>, TRUE, One, <<" ">>, <<>>, Two, <<>>, <<>>, Three,
              <<>>, <<>>)
SimNearMiss == SimJunk(<<"1", " ", "(", "2", "d", "B", " ", "3", "deg", ")">>)
SimComment == SimJunk(<<"F", "r", "e", "q", ".", "\t", "V", "(", "o", "u", "t", ")">>)

SimLineSet ==
    {SimPlain, SimSpaced, SimForms, SimBadFreq, SimBadMag, SimBadPhase, SimGlued,
     SimNearMiss, SimComment}

\* A CSV row with the given fields after the text lead; it is valid when it
\* has at least 3 fields and the first three are numbers.
Join(fields) ==
    LET RECURSIVE J(_)
        J(k) == IF k > Len(fields) THEN <<>>
                ELSE (IF k > 1 THEN <<",">> ELSE <<>>) \o fields[k].tok \o J(k + 1)
    IN  J(1)

MeasRow(lead, fields) ==
    [hdr |-> FALSE,
     valid |-> Len(fields) >= 3 /\ \A k \in 1..3 : fields[k].num,
     triple |-> IF Len(fields) >= 3
                THEN <<fields[1].val, fields[2].val, fields[3].val>>
                ELSE <<<<0, 1>>, <<0, 1>>, <<0, 1>>>>,
     nfields |-> Len(fields),
     nums |-> [k \in 1..Len(fields) |-> fields[k].num],
     text |-> lead \o Join(fields)]

\* A header line: the header token after the whitespace lead, then rest.
MeasHeader(lead, rest) ==
    [hdr |-> TRUE, valid |-> FALSE, triple |-> <<<<0, 1>>, <<0, 1>>, <<0, 1>>>>,
     nfields |-> 0, nums |-> <<>>,
     text |-> lead \o HeaderToken \o rest]

Junk == Bad(<<"x">>)
MeasHdr == MeasHeader(<<>>, <<",", "A", ",", "P">>)
MeasHdrIndented == MeasHeader(<<" ", "\t">>, <<",", "1", ",", "2">>)
MeasPlain == MeasRow(<<>>, <<One, Two, Three>>)
MeasSpaced ==
    MeasRow(<<" ">>, <<Num(<<"1", "0">>, 10, 1), Num(<<" ", "-", "3", " ">>, -3, 1),
                       Num(<<"0", ".", "1">>, 1, 10), Junk>>)
MeasBadMag == MeasRow(<<>>, <<Two, Junk, Three>>)
MeasBadPhase == MeasRow(<<>>, <<Three, One, Bad(<<>>)>>)
MeasBadFreq ==
    MeasRow(<<>>, <<Bad(<<"x">> \o HeaderToken), Two, Three>>)
MeasShort == MeasRow(<<>>, <<One, Two>>)

MeasLineSet ==
    {MeasHdr, MeasHdrIndented, MeasPlain, MeasSpaced, MeasBadMag, MeasBadPhase,
     MeasBadFreq, MeasShort}

\* The files of at most n lines over a set of lines.
Files(S, n) == UNION {[1..k -> S] : k \in 0..n}

TextOf(d) == [k \in 1..Len(d) |-> d[k].text]

\* The texts of the files of at most n lines over a set of lines.
TextFiles(S, n) == {TextOf(d) : d \in Files(S, n)}

-----------------------------------------------------------------------------
(* load_simulation_bode *)

InitSim ==
    /\ desc \in Files(SimLineSet, MaxSimLines)
    /\ lines = TextOf(desc)
    /\ pc = "sim_loop"
    /\ idx = 1
    /\ start_idx = None
    /\ SetListsInit
    /\ ret = NoReturn
    /\ interp = NoInterp
    /\ cmr = NoCmr


\* One turn of "for line in f".
SimLine ==
    /\ pc = "sim_loop"
    /\ idx <= Len(lines)
    /\ LET s == SimBody(Lists, lines[idx], idx)
       IN  /\ SetLists(s)
           /\ IF s.err = "none"
              THEN /\ idx' = idx + 1
                   /\ UNCHANGED <<pc, ret>>
              ELSE /\ pc' = "raised"
                   /\ ret' = Raise(s.err)
                   /\ UNCHANGED idx
    /\ UNCHANGED <<lines, desc, start_idx, interp, cmr>>

\* The file is exhausted: the three lists are returned as arrays.
SimReturn ==
    /\ pc = "sim_loop"
    /\ idx > Len(lines)
    /\ pc' = "returned"
    /\ ret' = Arrays(Lists)
    /\ UNCHANGED <<lines, desc, idx, start_idx, freq, mag_db, phase_deg,
                   org_f, org_m, org_p, interp, cmr>>

NextSim == SimLine \/ SimReturn

SpecSim == InitSim /\ [][NextSim]_vars

-----------------------------------------------------------------------------
(* load_measurement_bode *)

InitMeas ==
    /\ desc \in Files(MeasLineSet, MaxLines)
    /\ lines = TextOf(desc)
    /\ pc = "meas_scan"
    /\ idx = 1
    /\ start_idx = None
    /\ SetListsInit
    /\ ret = NoReturn
    /\ interp = NoInterp
    /\ cmr = NoCmr

\* A data region that starts at the header line itself.
DataStartAtHeader(i) == i

\* start_idx = i + 1
DataStart(i) == i + 1

\* One turn of "for i, line in enumerate(lines)", i = idx - 1: at a header
\* line start_idx is set and the loop is left.
FindHeader ==
    /\ pc = "meas_scan"
    /\ idx <= Len(lines)
    /\ IF IsHeader(lines[idx])
       THEN /\ start_idx' = DataStart(idx - 1)
            /\ idx' = start_idx' + 1
            /\ pc' = "meas_data"
       ELSE /\ idx' = idx + 1
            /\ UNCHANGED <<start_idx, pc>>
    /\ UNCHANGED <<lines, desc, freq, mag_db, phase_deg, org_f, org_m, org_p,
                   ret, interp, cmr>>

\* The scan ended with start_idx still None.
HeaderNotFound ==
    /\ pc = "meas_scan"
    /\ idx > Len(lines)
    /\ start_idx = None
    /\ pc' = "raised"
    /\ ret' = Raise("RuntimeError")
    /\ UNCHANGED <<lines, desc, idx, start_idx, freq, mag_db, phase_deg,
                   org_f, org_m, org_p, interp, cmr>>

\* One turn of "for line in lines[start_idx:]".
DataRow ==
    /\ pc = "meas_data"
    /\ idx <= Len(lines)
    /\ SetLists(MeasBody(Lists, lines[idx], idx))
    /\ idx' = idx + 1
    /\ UNCHANGED <<lines, desc, pc, start_idx, ret, interp, cmr>>

MeasReturn ==
    /\ pc = "meas_data"
    /\ idx > Len(lines)
    /\ pc' = "returned"
    /\ ret' = Arrays(Lists)
    /\ UNCHANGED <<lines, desc, idx, start_idx, freq, mag_db, phase_deg,
                   org_f, org_m, org_p, interp, cmr>>

NextMeas == FindHeader \/ HeaderNotFound \/ DataRow \/ MeasReturn

SpecMeas == InitMeas /\ [][NextMeas]_vars


-----------------------------------------------------------------------------
(* interpolate_to *)

NoArray == [kind |-> "none", a |-> <<>>]
Array(a) == [kind |-> "array", a |-> a]
ArrayError == [kind |-> "ValueError", a |-> <<>>]

\* numpy's linear scan "for (i = 1; i < len && key >= arr[i]; ++i)": the C
\* index at which it stops (arr[i] in C is arr[i + 1] here).
RECURSIVE LinearScan(_, _, _)
LinearScan(key, arr, i) ==
    IF i < Len(arr) /\ QLe(arr[i + 1], key) THEN LinearScan(key, arr, i + 1) ELSE i

\* A search that returns the index after the interval it found.
BinarySearchOffByOne(key, arr) ==
    IF QLt(arr[Len(arr)], key) THEN Len(arr)
    ELSE IF QLt(key, arr[1]) THEN -1
    ELSE LinearScan(key, arr, 1)

\* numpy's binary_search_with_guess on a non-empty arr: Len(arr) when key is
\* above the last element, -1 when it is below the first, else the C index j
\* the scan finds, arr[j] <= key < arr[j+1] on ascending arr.  Arrays of at
\* most 4 elements are scanned linearly; longer ones are bisected, with the
\* same result on ascending arr.
BinarySearchWithGuess(key, arr) ==
    IF QLt(arr[Len(arr)], key) THEN Len(arr)
    ELSE IF QLt(key, arr[1]) THEN -1
    ELSE LinearScan(key, arr, 1) - 1

\* numpy.interp at one point, given the C index j of the search: fp[0] below
\* the range, fp[-1] above it and at its last point, fp[j] when x is xp[j],
\* else slope*(x - xp[j]) + fp[j] in floating point.
InterpAt(x, xp, fp, j) ==
    IF j = -1 THEN fp[1]
    ELSE IF j = Len(xp) THEN fp[Len(xp)]
    ELSE IF j = Len(xp) - 1 THEN fp[j + 1]
    ELSE IF xp[j + 1] = x THEN fp[j + 1]
    ELSE FAdd(FMul(FDiv(FSub(fp[j + 2], fp[j + 1]), FSub(xp[j + 2], xp[j + 1])),
                   FSub(x, xp[j + 1])),
              fp[j + 1])

\* numpy.interp(x, xp, fp): ValueError when xp is empty or fp has another
\* length, else one value for each element of x.
NpInterp(x, xp, fp) ==
    IF Len(xp) = 0 \/ Len(fp) # Len(xp) THEN ArrayError
    ELSE Array([i \in 1..Len(x) |-> InterpAt(x[i], xp, fp, BinarySearchWithGuess(x[i], xp))])

\* np.interp(freq_dst, mag_src, freq_src): the source's two arrays exchanged.
InterpolateToSwapped(freq_src, mag_src, freq_dst) == NpInterp(freq_dst, mag_src, freq_src)

\* return np.interp(freq_dst, freq_src, mag_src)
InterpolateTo(freq_src, mag_src, freq_dst) == NpInterp(freq_dst, freq_src, mag_src)

\* The source frequencies and magnitudes and the destinations a call is made with.
FreqVals == {<<0, 1>>, <<3, 1>>, <<7, 1>>}
MagVals == {<<-30, 1>>, <<1, 1>>, <<7, 2>>}
ProbeVals == {<<-1, 1>>, <<0, 1>>, <<2, 1>>, <<3, 1>>, <<55, 8>>, <<7, 1>>, <<9, 1>>}

InitInterp ==
    /\ \E n \in 0..MaxSrc :
         \E xs \in [1..n -> FreqVals], ys \in [1..n -> MagVals] :
            interp = [called |-> FALSE, freq_src |-> xs, mag_src |-> ys,
                      freq_dst |-> <<>>, out |-> NoArray]
    /\ lines = <<>>
    /\ desc = <<>>
    /\ pc = "interpolate_to"
    /\ idx = 1
    /\ start_idx = None
    /\ SetListsInit
    /\ ret = NoReturn
    /\ cmr = NoCmr

\* interpolate_to is called on the source's own grid.
InterpolateOwnGrid ==
    /\ ~interp.called
    /\ interp' = [interp EXCEPT
                    !.called = TRUE,
                    !.freq_dst = interp.freq_src,
                    !.out = InterpolateTo(interp.freq_src, interp.mag_src, interp.freq_src)]
    /\ UNCHANGED <<lines, desc, pc, idx, start_idx, freq, mag_db, phase_deg,
                   org_f, org_m, org_p, ret, cmr>>

\* interpolate_to is called on one destination frequency.
InterpolateProbe ==
    /\ ~interp.called
    /\ \E x \in ProbeVals :
         interp' = [interp EXCEPT
                      !.called = TRUE,
                      !.freq_dst = <<x>>,
                      !.out = InterpolateTo(interp.freq_src, interp.mag_src, <<x>>)]
    /\ UNCHANGED <<lines, desc, pc, idx, start_idx, freq, mag_db, phase_deg,
                   org_f, org_m, org_p, ret, cmr>>

NextInterp == InterpolateOwnGrid \/ InterpolateProbe

SpecInterp == InitInterp /\ [][NextInterp]_vars

-----------------------------------------------------------------------------
(* The two parsers as functions of the file, as make_cmr_plot calls them *)

\* "for line in f" from line i on, until the file ends or an error leaves it.
RECURSIVE SimLoop(_, _, _)
SimLoop(s, file, i) ==
    IF i > Len(file) \/ s.err # "none" THEN s
    ELSE SimLoop(SimBody(s, file[i], i), file, i + 1)

RaiseOrReturn(s) == IF s.err = "none" THEN Arrays(s) ELSE Raise(s.err)

\* load_simulation_bode(filename) on a file that can be opened.
LoadSimulationBode(file) == RaiseOrReturn(SimLoop(NoLists, file, 1))

\* The scan for the header from line i on: start_idx, None when it ends.
RECURSIVE ScanHeader(_, _)
ScanHeader(file, i) ==
    IF i > Len(file) THEN None
    ELSE IF IsHeader(file[i]) THEN DataStart(i - 1)
    ELSE ScanHeader(file, i + 1)

\* "for line in lines[start_idx:]" from line i on.
RECURSIVE MeasLoop(_, _, _)
MeasLoop(s, file, i) ==
    IF i > Len(file) THEN s ELSE MeasLoop(MeasBody(s, file[i], i), file, i + 1)

ReturnFrom(file, start) ==
    IF start = None THEN Raise("RuntimeError")
    ELSE Arrays(MeasLoop(NoLists, file, start + 1))

\* load_measurement_bode(filename) on a file that can be opened.
LoadMeasurementBode(file) == ReturnFrom(file, ScanHeader(file, 1))

-----------------------------------------------------------------------------
(* make_cmr_plot *)

\* a - b on one-dimensional arrays, with numpy's broadcasting: element by
\* element on equal lengths, an array of length 1 stretched to the other's
\* length, ValueError otherwise.
Subtract(a, b) ==
    IF Len(a) = Len(b) THEN Array([i \in 1..Len(a) |-> FSub(a[i], b[i])])
    ELSE IF Len(a) = 1 THEN Array([i \in 1..Len(b) |-> FSub(a[1], b[i])])
    ELSE IF Len(b) = 1 THEN Array([i \in 1..Len(a) |-> FSub(a[i], b[1])])
    ELSE ArrayError

\* cmrr = mag_d - mag_c_i
Cmrr(mag_d, mag_c_i) == Subtract(mag_d, mag_c_i)

\* The files make_cmr_plot is given: simulation exports, and measurement
\* exports with or without a header line.
CmrSimFiles == TextFiles({SimPlain, SimForms, SimComment}, MaxCmrLines)
CmrMeasFiles ==
    {<<>>} \cup {<<MeasHdr.text>> \o r :
                    r \in TextFiles({MeasPlain, MeasSpaced, MeasBadMag}, MaxCmrLines)}

InitCmr ==
    /\ cmr = [step |-> "load_sim_d", err |-> "none",
              f_sim_d |-> <<>>, mag_sim_d |-> <<>>, f_sim_c |-> <<>>, mag_sim_c |-> <<>>,
              f_meas_d |-> <<>>, mag_meas_d |-> <<>>, f_meas_c |-> <<>>,
              mag_meas_c |-> <<>>, mag_sim_c_i |-> <<>>, mag_meas_c_i |-> <<>>,
              cmrr_sim |-> <<>>, cmrr_meas |-> <<>>]
    /\ interp = NoInterp
    /\ lines = <<>>
    /\ desc = <<>>
    /\ pc = "make_cmr_plot"
    /\ idx = 1
    /\ start_idx = None
    /\ SetListsInit
    /\ ret = NoReturn

CmrRest ==
    UNCHANGED <<lines, desc, pc, idx, start_idx, freq, mag_db, phase_deg,
                org_f, org_m, org_p, ret, interp>>

CmrRaise(e) == cmr' = [cmr EXCEPT !.step = "raised", !.err = e]

\* f_sim_d, mag_sim_d, _ = load_simulation_bode(sim_diff_file)
LoadSimDiff ==
    /\ cmr.step = "load_sim_d"
    /\ \E file \in CmrSimFiles :
         LET r == LoadSimulationBode(file)
         IN  IF r.kind # "arrays" THEN CmrRaise(r.kind)
             ELSE cmr' = [cmr EXCEPT !.step = "load_sim_c",
                                     !.f_sim_d = r.f, !.mag_sim_d = r.m]
    /\ CmrRest

\* f_sim_c, mag_sim_c, _ = load_simulation_bode(sim_cm_file)
LoadSimCm ==
    /\ cmr.step = "load_sim_c"
    /\ \E file \in CmrSimFiles :
         LET r == LoadSimulationBode(file)
         IN  IF r.kind # "arrays" THEN CmrRaise(r.kind)
             ELSE cmr' = [cmr EXCEPT !.step = "load_meas_d",
                                     !.f_sim_c = r.f, !.mag_sim_c = r.m]
    /\ CmrRest

\* f_meas_d, mag_meas_d, _ = load_measurement_bode(meas_diff_file)
LoadMeasDiff ==
    /\ cmr.step = "load_meas_d"
    /\ \E file \in CmrMeasFiles :
         LET r == LoadMeasurementBode(file)
         IN  IF r.kind # "arrays" THEN CmrRaise(r.kind)
             ELSE cmr' = [cmr EXCEPT !.step = "load_meas_c",
                                     !.f_meas_d = r.f, !.mag_meas_d = r.m]
    /\ CmrRest

\* f_meas_c, mag_meas_c, _ = load_measurement_bode(meas_cm_file)
LoadMeasCm ==
    /\ cmr.step = "load_meas_c"
    /\ \E file \in CmrMeasFiles :
         LET r == LoadMeasurementBode(file)
         IN  IF r.kind # "arrays" THEN CmrRaise(r.kind)
             ELSE cmr' = [cmr EXCEPT !.step = "interp_sim",
                                     !.f_meas_c = r.f, !.mag_meas_c = r.m]
    /\ CmrRest

\* mag_sim_c_i = interpolate_to(f_sim_c, mag_sim_c, f_sim_d)
InterpSim ==
    /\ cmr.step = "interp_sim"
    /\ LET r == InterpolateTo(cmr.f_sim_c, cmr.mag_sim_c, cmr.f_sim_d)
       IN  IF r.kind # "array" THEN CmrRaise(r.kind)
           ELSE cmr' = [cmr EXCEPT !.step = "interp_meas", !.mag_sim_c_i = r.a]
    /\ CmrRest

\* mag_meas_c_i = interpolate_to(f_meas_c, mag_meas_c, f_meas_d)
InterpMeas ==
    /\ cmr.step = "interp_meas"
    /\ LET r == InterpolateTo(cmr.f_meas_c, cmr.mag_meas_c, cmr.f_meas_d)
       IN  IF r.kind # "array" THEN CmrRaise(r.kind)
           ELSE cmr' = [cmr EXCEPT !.step = "cmrr_sim", !.mag_meas_c_i = r.a]
    /\ CmrRest

\* cmrr_sim = mag_sim_d - mag_sim_c_i
CmrrSim ==
    /\ cmr.step = "cmrr_sim"
    /\ LET r == Cmrr(cmr.mag_sim_d, cmr.mag_sim_c_i)
       IN  IF r.kind # "array" THEN CmrRaise(r.kind)
           ELSE cmr' = [cmr EXCEPT !.step = "cmrr_meas", !.cmrr_sim = r.a]
    /\ CmrRest

\* cmrr_meas = mag_meas_d - mag_meas_c_i; the curves are then handed to the plot.
CmrrMeas ==
    /\ cmr.step = "cmrr_meas"
    /\ LET r == Cmrr(cmr.mag_meas_d, cmr.mag_meas_c_i)
       IN  IF r.kind # "array" THEN CmrRaise(r.kind)
           ELSE cmr' = [cmr EXCEPT !.step = "plot", !.cmrr_meas = r.a]
    /\ CmrRest

NextCmr ==
    \/ LoadSimDiff
    \/ LoadSimCm
    \/ LoadMeasDiff
    \/ LoadMeasCm
    \/ InterpSim
    \/ InterpMeas
    \/ CmrrSim
    \/ CmrrMeas

SpecCmr == InitCmr /\ [][NextCmr]_vars

-----------------------------------------------------------------------------
(* What the files say, read off the way they were written *)

Elems(q) == {q[k] : k \in 1..Len(q)}

\* The number of the first header line, 0 when there is none.
FirstHeader(d) ==
    IF \E k \in 1..Len(d) : d[k].hdr
    THEN CHOOSE k \in 1..Len(d) : d[k].hdr /\ \A j \in 1..(k - 1) : ~d[j].hdr
    ELSE 0

\* The numbers of the lines from..upto that satisfy Keep, in file order.
RECURSIVE Kept(_, _, _, _)
Kept(Keep(_), d, from, upto) ==
    IF from > upto THEN <<>>
    ELSE (IF Keep(d[from]) THEN <<from>> ELSE <<>>) \o Kept(Keep, d, from + 1, upto)

\* Column col of the triples of the given lines, as doubles.
Column(d, ks, col) == [n \in 1..Len(ks) |-> Round(d[ks[n]].triple[col])]

IsValidRow(l) == l.valid
IsWellFormed(l) == l.match /\ l.wf

\* The valid rows of the data region among the first upto lines.
ValidRows(d, upto) ==
    IF FirstHeader(d) = 0 THEN <<>> ELSE Kept(IsValidRow, d, FirstHeader(d) + 1, upto)

\* The lines holding a well-formed occurrence among the first upto lines.
WellFormedLines(d, upto) == Kept(IsWellFormed, d, 1, upto)

\* Every occurrence of the pattern in the file is well formed.
WellFormedFile(d) == \A k \in 1..Len(d) : d[k].match => d[k].wf

-----------------------------------------------------------------------------
(* Claims about load_measurement_bode, under SpecMeas *)

\* C1: every line of the data region is atomic: a row appends one value to
\* each of freq, mag_db and phase_deg or to none of them, and a row with
\* fewer than 3 fields or a non-numeric field among the first three appends
\* to none.
C1_RowAtomic ==
    \A k \in 1..Len(desc) :
        /\ (k \in Elems(org_f)) = (k \in Elems(org_m))
        /\ (k \in Elems(org_m)) = (k \in Elems(org_p))
        /\ ~desc[k].valid => k \notin Elems(org_f) \cup Elems(org_m) \cup Elems(org_p)

\* C2: the three sequences have the same length after any prefix of the
\* lines and in the returned arrays, and index i of all three comes from the
\* same line.
C2_EqualLength ==
    /\ Len(freq) = Len(mag_db)
    /\ Len(mag_db) = Len(phase_deg)
    /\ org_f = org_m
    /\ org_m = org_p
    /\ ret.kind = "arrays" => Len(ret.f) = Len(ret.m) /\ Len(ret.m) = Len(ret.p)

\* C3: once the call has ended, it has raised the header-not-found error,
\* handing over no series, exactly when the file has no header line; a
\* ValueError of a row never reaches the caller.
C3_HeaderNotFoundIff ==
    /\ ret.kind \in {"none", "arrays", "RuntimeError"}
    /\ pc \in {"returned", "raised"} =>
          /\ (ret.kind = "RuntimeError") = (FirstHeader(desc) = 0)
          /\ (ret.kind = "arrays") = (FirstHeader(desc) # 0)
    /\ ret.kind = "RuntimeError" =>
          pc = "raised" /\ ret.f = <<>> /\ ret.m = <<>> /\ ret.p = <<>>

\* The error is raised on a file with well-formed numeric rows and a line
\* that holds the header token after other text.
C3_Witness ==
    /\ pc = "raised"
    /\ ret.kind = "RuntimeError"
    /\ \E k \in 1..Len(desc) : desc[k].valid
    /\ \E k \in 1..Len(desc) : desc[k] = MeasBadFreq

\* C5: the data region starts right after the first header line: nothing is
\* appended while the header is looked for, start_idx is the line after the
\* first header, every appended value comes from a later line, and a later
\* header line neither appends nor moves the region.
C5_DataRegion ==
    /\ pc = "meas_scan" =>
          freq = <<>> /\ mag_db = <<>> /\ phase_deg = <<>> /\ start_idx = None
    /\ pc \in {"meas_data", "returned"} =>
          /\ FirstHeader(desc) # 0
          /\ start_idx = FirstHeader(desc)
          /\ idx > start_idx
          /\ \A k \in Elems(org_f) \cup Elems(org_m) \cup Elems(org_p) :
                k > FirstHeader(desc) /\ ~desc[k].hdr

\* A numeric row before the first header, a numeric row after it and a second
\* header line, all read.
C5_Witness ==
    /\ pc = "returned"
    /\ \E j \in 1..Len(desc) : j < FirstHeader(desc) /\ desc[j].valid
    /\ \E k \in 1..Len(desc) : k > FirstHeader(desc) /\ desc[k].hdr
    /\ freq # <<>>

\* C6: the returned arrays are exactly the first three fields of the valid
\* rows of the data region, once each and in file order.
C6_ValidRowsInOrder ==
    ret.kind = "arrays" =>
        LET ks == ValidRows(desc, Len(desc))
        IN  /\ ret.f = Column(desc, ks, 1)
            /\ ret.m = Column(desc, ks, 2)
            /\ ret.p = Column(desc, ks, 3)

-----------------------------------------------------------------------------
(* Claims about load_simulation_bode, under SpecSim *)

\* C4: whatever the lines hold, the call returns normally: no ValueError of a
\* captured token reaches the caller.
C4_SimNeverRaises == ret.kind # "ValueError" /\ pc # "raised"

-----------------------------------------------------------------------------
(* Claims about interpolate_to, under SpecInterp *)

Ascending(xs) == \A i \in 1..(Len(xs) - 1) : QLe(xs[i], xs[i + 1])
StrictlyAscending(xs) == \A i \in 1..(Len(xs) - 1) : QLt(xs[i], xs[i + 1])

OnOwnGrid == interp.called /\ interp.freq_dst = interp.freq_src

\* C8 as stated: on every ascending source, interpolating onto the source's
\* own grid returns mag_src element by element.
C8_IdentityAscending ==
    OnOwnGrid /\ Ascending(interp.freq_src) => interp.out = Array(interp.mag_src)

\* C8 as amended: on every non-empty source whose frequencies are strictly
\* ascending, interpolating onto the source's own grid returns mag_src
\* element by element.
C8_IdentityStrict ==
    OnOwnGrid /\ interp.freq_src # <<>> /\ StrictlyAscending(interp.freq_src)
        => interp.out = Array(interp.mag_src)

\* The call was made on the own grid of a strictly ascending source with
\* several points of different magnitude.
C8_Witness ==
    /\ OnOwnGrid
    /\ Len(interp.freq_src) >= 2
    /\ StrictlyAscending(interp.freq_src)
    /\ interp.mag_src[1] # interp.mag_src[2]
    /\ interp.out.kind = "array"

\* The value v lies between the magnitudes a and b, widened by tol on each side.
Between(v, a, b, tol) == QLe(QSub(QMin(a, b), tol), v) /\ QLe(v, QAdd(QMax(a, b), tol))

\* 13 units of roundoff 2^-Prec of the larger of the magnitudes a and b.
RoundingSlack(a, b) == QMul(Rat(13, Pow(2, Prec)), QMax(QAbs(a), QAbs(b)))

NoSlack(a, b) == <<0, 1>>

\* One probe x of an ascending source was interpolated to v: below the range
\* v is the first magnitude, above it the last, at a source frequency the
\* magnitude of a source point of that frequency, and strictly between two
\* neighbouring source points a value between their magnitudes widened by
\* Slack.
Clamped(xs, ys, x, v, Slack(_, _)) ==
    /\ QLt(x, xs[1]) => v = ys[1]
    /\ QLt(xs[Len(xs)], x) => v = ys[Len(xs)]
    /\ (\E j \in 1..Len(xs) : xs[j] = x) => \E j \in 1..Len(xs) : xs[j] = x /\ v = ys[j]
    /\ \A j \in 1..(Len(xs) - 1) :
          QLt(xs[j], x) /\ QLt(x, xs[j + 1])
              => Between(v, ys[j], ys[j + 1], Slack(ys[j], ys[j + 1]))

Probed ==
    /\ interp.called
    /\ Len(interp.freq_dst) = 1
    /\ interp.freq_src # <<>>
    /\ Ascending(interp.freq_src)

\* C9 as stated: below the range the first magnitude, above it the last,
\* inside it a value between the magnitudes of the two bracketing points.
C9_ClampExact ==
    Probed =>
        /\ interp.out.kind = "array"
        /\ Len(interp.out.a) = 1
        /\ Clamped(interp.freq_src, interp.mag_src, interp.freq_dst[1],
                   interp.out.a[1], NoSlack)

\* C9 as amended: below the range the first magnitude, above it the last, at
\* a source frequency that point's magnitude, and strictly between two source
\* points a value between their magnitudes up to the rounding error of the
\* floating point blend.
C9_ClampRounded ==
    Probed =>
        /\ interp.out.kind = "array"
        /\ Len(interp.out.a) = 1
        /\ Clamped(interp.freq_src, interp.mag_src, interp.freq_dst[1],
                   interp.out.a[1], RoundingSlack)

\* A probe strictly between two source points of different magnitude got a
\* value that is neither of the two magnitudes.
C9_Witness ==
    /\ Probed
    /\ \E j \in 1..(Len(interp.freq_src) - 1) :
          /\ QLt(interp.freq_src[j], interp.freq_dst[1])
          /\ QLt(interp.freq_dst[1], interp.freq_src[j + 1])
          /\ interp.out.a[1] \notin {interp.mag_src[j], interp.mag_src[j + 1]}

-----------------------------------------------------------------------------
(* Claims about make_cmr_plot, under SpecCmr *)

\* The curve cmrr over the differential series (f_d, mag_d) and the
\* common-mode series (f_c, mag_c), aligned as mag_c_i: one value for each
\* point of f_d, value i the differential magnitude at i minus the
\* common-mode magnitude interpolated at f_d[i].
IsCmrrCurve(cmrr, f_d, mag_d, f_c, mag_c, mag_c_i) ==
    /\ Len(mag_c_i) = Len(f_d)
    /\ Len(cmrr) = Len(f_d)
    /\ Len(mag_d) = Len(f_d)
    /\ \A i \in 1..Len(f_d) :
          /\ mag_c_i[i] = InterpolateTo(f_c, mag_c, <<f_d[i]>>).a[1]
          /\ cmrr[i] = FSub(mag_d[i], mag_c_i[i])

\* C10: when make_cmr_plot has derived its two curves, each of them, the
\* simulation's and the measurement's, is the CMRR curve of its parsed
\* differential and common-mode series.
C10_CmrrPointwise ==
    cmr.step = "plot" =>
        /\ IsCmrrCurve(cmr.cmrr_sim, cmr.f_sim_d, cmr.mag_sim_d, cmr.f_sim_c,
                       cmr.mag_sim_c, cmr.mag_sim_c_i)
        /\ IsCmrrCurve(cmr.cmrr_meas, cmr.f_meas_d, cmr.mag_meas_d, cmr.f_meas_c,
                       cmr.mag_meas_c, cmr.mag_meas_c_i)

=============================================================================
